---- MODULE Spec2Model ----
(***************************************************************************)
(* State-machine model of master_study/001_make_folders_..._bbb_2228.py:   *)
(* the script that assembles the base configuration dictionaries, expands  *)
(* the (split, bunch) scan grid into job variants and hands the tree of    *)
(* children to tree_maker.                                                 *)
(*                                                                         *)
(* Python dictionaries are objects on a heap: `heap` is a sequence of      *)
(* dictionaries, a dictionary is a function from keys to tagged values,    *)
(* and a nested dictionary is held by reference ([ref |-> id]), so that    *)
(* aliasing between the template and the job variants is observable.      *)
(***************************************************************************)
EXTENDS Integers, Sequences, FiniteSets, TLC

VARIABLES
    pc,                    \* position of the script
    err,                   \* exception that ended the script ("none" if none)
    heap,                  \* the dictionaries built by the script
    files,                 \* filesystem: path -> parsed JSON content
    check_bunch_number,    \* line 180 (user-edited flag)
    filling_scheme_path,   \* lines 142-144, 167
    d_filling_scheme,      \* line 158
    n_reformat,            \* number of calls of reformat_filling_scheme_from_lpc
    worst_bunch_b1,        \* line 189
    bool_inp,              \* line 193 (last answer read)
    typed,                 \* line 203 (last bunch number typed)
    d_config_collider,     \* line 222 (heap id, 0 before it exists)
    d_config_simulation,   \* line 242 (heap id, 0 before it exists)
    l_bunch_to_scan,       \* lines 259-263
    track_array,           \* line 291
    combos,                \* the pools itertools.product iterates (line 292)
    idx_job,               \* enumerate counter of line 292
    children,              \* children["base_collider"]["children"], in insertion order
    template0,             \* value of the two templates when the loop was entered
    root_children          \* config["root"]["children"] after line 317

vars == <<pc, err, heap, files, check_bunch_number, filling_scheme_path,
          d_filling_scheme, n_reformat, worst_bunch_b1, bool_inp, typed,
          d_config_collider, d_config_simulation, l_bunch_to_scan, track_array,
          combos, idx_job, children, template0, root_children>>

---------------------------------------------------------------------------
\* Bounds of the model
MaxSplit == 2
MaxFamilies == 3
\* First members / members of the identical-bunch families of the input file
FamilySet == {<< >>, <<100>>, <<200, 201>>, <<300>>}

---------------------------------------------------------------------------
\* Tagged Python values
PyNone == [none |-> TRUE]

PyInt(n) == [int |-> n]

\* a float, bool or fixed string literal of the script, kept as written
PyLit(s) == [lit |-> s]

\* a string the script computes, as its sequence of characters / tokens
PyStr(s) == [str |-> s]

PyRef(i) == [ref |-> i]

IsRef(v) == "ref" \in DOMAIN v

IsNone(v) == "none" \in DOMAIN v

EmptyDict == [k \in {} |-> PyNone]

\* d[k] = v
SetItem(d, k, v) == [x \in DOMAIN d \cup {k} |-> IF x = k THEN v ELSE d[x]]

\* heap with heap[i][k] = v
HeapSet(h, i, k, v) == [h EXCEPT ![i] = SetItem(h[i], k, v)]

\* a literal dictionary with the given items
DictOf(items) == [k \in {it[1] : it \in items} |-> (CHOOSE it \in items : it[1] = k)[2]]

---------------------------------------------------------------------------
\* Heap ids of the dictionaries the script names before the filling scheme is loaded
d_config_particles == 1

d_config_mad == 2

d_config_tune_and_chroma == 6

d_config_knobs == 11

d_config_leveling == 12

d_config_beambeam == 15

\* lines 28-39
InitParticles(n) ==
    DictOf({<<"r_min", PyInt(2)>>, <<"r_max", PyInt(10)>>,
            <<"n_r", PyInt(2 * 16 * (10 - 2))>>, <<"n_angles", PyInt(5)>>,
            <<"n_split", PyInt(n)>>})

\* lines 97-112
InitKnobs ==
    DictOf({<<"on_x1", PyInt(250)>>, <<"on_sep1", PyInt(0)>>, <<"on_x2", PyInt(-170)>>,
            <<"on_sep2", PyLit("0.138")>>, <<"on_x5", PyInt(250)>>, <<"on_sep5", PyInt(0)>>,
            <<"on_x8h", PyLit("0.0")>>, <<"on_x8v", PyInt(170)>>,
            <<"on_crab1", PyInt(-190)>>, <<"on_crab5", PyInt(-190)>>,
            <<"i_oct_b1", PyLit("60.0")>>, <<"i_oct_b2", PyLit("60.0")>>})

\* lines 81-85: one entry per beam
PerBeam(v) == DictOf({<<"lhcb1", v>>, <<"lhcb2", v>>})

\* The heap after line 137, for a script whose line 39 reads n_split = n
InitHeap(n) ==
    << InitParticles(n),                                                  \* 1
       DictOf({<<"beam_config", PyRef(3)>>,
               <<"optics_file", PyLit("acc-models-lhc/flatcc/opt_flathv_75_180_1500_thin.madx")>>}),
       DictOf({<<"lhcb1", PyRef(4)>>, <<"lhcb2", PyRef(5)>>}),            \* 3
       DictOf({<<"beam_energy_tot", PyInt(7000)>>}),                      \* 4
       DictOf({<<"beam_energy_tot", PyInt(7000)>>}),                      \* 5
       DictOf({<<"qx", PyRef(7)>>, <<"qy", PyRef(8)>>, <<"dqx", PyRef(9)>>,
               <<"dqy", PyRef(10)>>, <<"delta_cmr", PyLit("0.001")>>,
               <<"delta_cmi", PyLit("0.0")>>}),                           \* 6
       PerBeam(PyLit("62.313")),                                          \* 7
       PerBeam(PyLit("60.320")),                                          \* 8
       PerBeam(PyLit("5.0")),                                             \* 9
       PerBeam(PyLit("5.0")),                                             \* 10
       InitKnobs,                                                         \* 11
       DictOf({<<"ip2", PyRef(13)>>, <<"ip8", PyRef(14)>>}),              \* 12
       DictOf({<<"separation_in_sigmas", PyInt(5)>>}),                    \* 13
       DictOf({<<"luminosity", PyLit("2.0e33")>>}),                       \* 14
       DictOf({<<"mask_with_filling_pattern", PyRef(16)>>,
               <<"num_particles_per_bunch", PyLit("1.4e11 * (1960 / 2216) ** 0.5")>>,
               <<"nemitt_x", PyLit("2.5e-6")>>, <<"nemitt_y", PyLit("2.5e-6")>>}),  \* 15
       EmptyDict >>                                                       \* 16

---------------------------------------------------------------------------
\* Strings: a computed string is the sequence of its characters

DigitChars == <<"0", "1", "2", "3", "4", "5", "6", "7", "8", "9">>

RECURSIVE Digits(_)
\* str(n) for n >= 0
Digits(n) == IF n < 10 THEN <<DigitChars[n + 1]>>
             ELSE Append(Digits(n \div 10), DigitChars[(n % 10) + 1])

RECURSIVE ZeroPad(_, _)
\* the format spec 0w applied to the digits of a non-negative integer:
\* pad on the left with "0" up to width w, never truncate
ZeroPad(s, w) == IF Len(s) >= w THEN s ELSE ZeroPad(<<"0">> \o s, w)

\* line 300: f"../particles/{track:02}.parquet"
ParticleFile(track) ==
    <<".", ".", "/", "p", "a", "r", "t", "i", "c", "l", "e", "s", "/">>
    \o ZeroPad(Digits(track), 2)
    \o <<".", "p", "a", "r", "q", "u", "e", "t">>

\* the identifier with the index counted from 1
JobNameFromOne(idx) == <<"x", "t", "r", "a", "c", "k", "_">> \o ZeroPad(Digits(idx + 1), 4)

\* line 304: f"xtrack_{idx_job:04}"
JobName(idx) == <<"x", "t", "r", "a", "c", "k", "_">> \o ZeroPad(Digits(idx), 4)

IsDigit(c) == \E d \in 1..10 : DigitChars[d] = c

DigitValue(c) == (CHOOSE d \in 1..10 : DigitChars[d] = c) - 1

RECURSIVE NatValue(_)
\* value of a non-empty sequence of digits
NatValue(s) == IF Len(s) = 1 THEN DigitValue(s[1])
               ELSE 10 * NatValue(SubSeq(s, 1, Len(s) - 1)) + DigitValue(s[Len(s)])

AllDigits(s) == Len(s) >= 1 /\ \A i \in 1..Len(s) : IsDigit(s[i])

\* line 202: does int(s) succeed (an optional sign, then digits)
IntParses(s) == \/ AllDigits(s)
                \/ Len(s) >= 2 /\ s[1] = "-" /\ AllDigits(Tail(s))

\* line 202: the value of int(s) when it succeeds
IntValue(s) == IF s[1] = "-" THEN 0 - NatValue(Tail(s)) ELSE NatValue(s)

\* A path is the sequence of its pieces, cut so that ".json" is a piece
\* lines 142-144
InitialPath ==
    <<"/cwd/", "master_jobs/filling_scheme/25ns_2228b_2216_1686_2112_hybrid_8b4e_2x56b_25ns_3x48b_12inj_with_identical_bunches", ".json">>

\* line 156: str.endswith
EndsWith(s, suffix) == Len(s) >= 1 /\ s[Len(s)] = suffix

\* line 167: str.replace, which replaces every occurrence
Replace(s, old, new) == [i \in 1..Len(s) |-> IF s[i] = old THEN new ELSE s[i]]

---------------------------------------------------------------------------
\* Filling-scheme files

Unbound == [unbound |-> TRUE]

IsBound(d) == "unbound" \notin DOMAIN d

\* sequences of at most MaxFamilies families
Patterns == UNION {[1..n -> FamilySet] : n \in 0..MaxFamilies}

\* a file in the shape xmask reads, with the identical-bunch families fams
SchemeFile(fams) ==
    DictOf({<<"beam1", [buckets |-> 1]>>, <<"beam2", [buckets |-> 2]>>,
            <<"beam1_identical_bunches", [families |-> fams]>>})

\* a file holding only the two bucket lists (comment of lines 140-141)
BucketsFile == DictOf({<<"beam1", [buckets |-> 1]>>, <<"beam2", [buckets |-> 2]>>})

\* a file as downloaded from LPC (comment of lines 146-153)
LpcFile == DictOf({<<"fills", [lpc |-> TRUE]>>})

\* what the reformatter may find in a file: at least one family, none of them empty
ConvertedPatterns == {<< <<100>> >>, << <<200, 201>>, <<300>> >>}

\* a file that lists beam 1 only, with its families
Beam1File(fams) ==
    DictOf({<<"beam1", [buckets |-> 1]>>, <<"beam1_identical_bunches", [families |-> fams]>>})

InputFiles == {SchemeFile(f) : f \in Patterns} \cup {BucketsFile, LpcFile}
              \cup {Beam1File(f) : f \in ConvertedPatterns}

\* reformat_filling_scheme_from_lpc(path): writes the converted scheme next to the original
Reformat(fs, path, fams) ==
    [p \in DOMAIN fs \cup {Replace(path, ".json", "_converted.json")} |->
        IF p = Replace(path, ".json", "_converted.json") THEN SchemeFile(fams) ELSE fs[p]]

NoFiles == [p \in {} |-> LpcFile]

---------------------------------------------------------------------------
\* Heap operators

\* ids of the dictionaries that dictionary i refers to directly
Succ(h, i) == {h[i][k].ref : k \in {x \in DOMAIN h[i] : IsRef(h[i][x])}}

RECURSIVE ReachFrom(_, _, _)
ReachFrom(h, frontier, seen) ==
    IF frontier = {} THEN seen
    ELSE LET nxt == (UNION {Succ(h, i) : i \in frontier}) \ seen
         IN  ReachFrom(h, nxt, seen \cup nxt)

\* every dictionary reachable from r, r included
Reach(h, r) == ReachFrom(h, {r}, {r})

RECURSIVE Deep(_, _)
\* the value of dictionary i with every reference replaced by the value it refers to
Deep(h, i) == [k \in DOMAIN h[i] |-> IF IsRef(h[i][k]) THEN Deep(h, h[i][k].ref) ELSE h[i][k]]

\* position of o among the ids of S
Rank(S, o) == Cardinality({x \in S : x < o}) + 1

\* copy.copy(heap[r]): a new top-level dictionary whose nested dictionaries are shared
ShallowCopy(h, r) == [heap |-> Append(h, h[r]), id |-> Len(h) + 1]

\* no copy at all: the template itself
NoCopy(h, r) == [heap |-> h, id |-> r]

\* copy.deepcopy(heap[r]): a fresh copy of every dictionary reachable from r,
\* with the references between them redirected to the copies
DeepCopy(h, r) ==
    LET S == Reach(h, r)
        New(o) == Len(h) + Rank(S, o)
        Old(j) == CHOOSE o \in S : Rank(S, o) = j
        Copy(o) == [k \in DOMAIN h[o] |->
                       IF IsRef(h[o][k]) THEN PyRef(New(h[o][k].ref)) ELSE h[o][k]]
    IN  [heap |-> h \o [j \in 1..Cardinality(S) |-> Copy(Old(j))], id |-> New(r)]

\* Ordered dictionary (children): a sequence of items [key, val]
DictKeys(d) == [i \in 1..Len(d) |-> d[i].key]

HasKey(d, k) == \E i \in 1..Len(d) : d[i].key = k

\* d[k] = v keeps the position of an existing key and appends a new one
DictSet(d, k, v) ==
    IF HasKey(d, k) THEN [i \in 1..Len(d) |-> IF d[i].key = k THEN [key |-> k, val |-> v] ELSE d[i]]
    ELSE Append(d, [key |-> k, val |-> v])

\* np.arange(n)
Arange(n) == [i \in 1..n |-> i - 1]

\* one row of the product: x paired with every element of pool
Row(x, pool) == [j \in 1..Len(pool) |-> <<x, pool[j]>>]

\* zip(a, b): the axes paired element by element
ZipPairs(a, b) ==
    [i \in 1..(IF Len(a) < Len(b) THEN Len(a) ELSE Len(b)) |-> <<a[i], b[i]>>]

\* the product with the first axis varying fastest
ProductFirstFastest(a, b) ==
    [k \in 1..(Len(a) * Len(b)) |-> <<a[((k - 1) % Len(a)) + 1], b[((k - 1) \div Len(a)) + 1]>>]

RECURSIVE Product(_, _)
\* itertools.product(a, b): for x in a: for y in b: yield (x, y)
Product(a, b) == IF a = << >> THEN << >> ELSE Row(Head(a), b) \o Product(Tail(a), b)

RECURSIVE FirstMembers(_)
\* lines 259-261: int(family[0]) for each family, in order
FirstMembers(fams) == IF fams = << >> THEN << >>
                      ELSE <<Head(fams)[1]>> \o FirstMembers(Tail(fams))

\* the dictionary d_config_collider["config_beambeam"]["mask_with_filling_pattern"]
MaskOf(h, collider) == h[h[collider]["config_beambeam"].ref]["mask_with_filling_pattern"].ref

\* the dictionary d_config_beambeam["mask_with_filling_pattern"]
BeamBeamMask(h) == h[d_config_beambeam]["mask_with_filling_pattern"].ref

\* lines 171-179
SetMask(h, path) ==
    LET m  == BeamBeamMask(h)
        h1 == HeapSet(h, m, "pattern_fname", PyStr(path))
        h2 == HeapSet(h1, m, "i_bunch_b1", PyNone)
    IN  HeapSet(h2, m, "i_bunch_b2", PyInt(1144))

---------------------------------------------------------------------------
\* Inputs

\* answers to the prompt of line 193
Answers == {"y", "n", "", "yes"}

\* what may be typed at the prompt of line 203
TypedStrings == {<< >>, <<"7">>, <<"4", "2">>, <<"-", "7">>, <<"-">>, <<"x">>, <<"7", "x">>}

\* results of get_worst_bunch
WorstBunches == {200, 300}

\* The state after line 144: the literal dictionaries are built, the filling
\* scheme file (if any) is on disk, nothing is loaded yet
Init ==
    /\ pc = "load"
    /\ err = "none"
    /\ \E n \in 0..MaxSplit : heap = InitHeap(n)
    /\ \/ files = NoFiles
       \/ \E f \in InputFiles : files = [p \in {InitialPath} |-> f]
    /\ check_bunch_number \in BOOLEAN
    /\ filling_scheme_path = InitialPath
    /\ d_filling_scheme = Unbound
    /\ n_reformat = 0
    /\ worst_bunch_b1 = PyNone
    /\ bool_inp = "unset"
    /\ typed = << >>
    /\ d_config_collider = 0
    /\ d_config_simulation = 0
    /\ l_bunch_to_scan = << >>
    /\ track_array = << >>
    /\ combos = << >>
    /\ idx_job = 0
    /\ children = << >>
    /\ template0 = << >>
    /\ root_children = Unbound

\* lines 156-158: load the filling scheme
LoadFillingScheme ==
    /\ pc = "load"
    /\ IF EndsWith(filling_scheme_path, ".json")
       THEN IF filling_scheme_path \in DOMAIN files
            THEN /\ d_filling_scheme' = files[filling_scheme_path]
                 /\ pc' = "shape"
                 /\ err' = err
            ELSE /\ pc' = "crashed"
                 /\ err' = "FileNotFoundError"
                 /\ UNCHANGED d_filling_scheme
       ELSE /\ pc' = "shape"
            /\ UNCHANGED <<d_filling_scheme, err>>
    /\ UNCHANGED <<heap, files, check_bunch_number, filling_scheme_path, n_reformat,
                   worst_bunch_b1, bool_inp, typed, d_config_collider,
                   d_config_simulation, l_bunch_to_scan, track_array, combos, idx_job,
                   children, template0, root_children>>

\* lines 161-191: reformat the scheme if it has not both beams, record the pattern
\* file name and the bunch numbers, and get the worst bunch if the check is on
CheckShape ==
    /\ pc = "shape"
    /\ IF ~IsBound(d_filling_scheme)
       THEN /\ pc' = "crashed"
            /\ err' = "NameError"
            /\ UNCHANGED <<heap, files, filling_scheme_path, n_reformat, worst_bunch_b1>>
       ELSE /\ IF "beam1" \in DOMAIN d_filling_scheme /\ "beam2" \in DOMAIN d_filling_scheme
               THEN UNCHANGED <<files, filling_scheme_path, n_reformat>>
               ELSE /\ \E fams \in ConvertedPatterns :
                          files' = Reformat(files, filling_scheme_path, fams)
                    /\ n_reformat' = n_reformat + 1
                    /\ filling_scheme_path' =
                          Replace(filling_scheme_path, ".json", "_converted.json")
            /\ heap' = SetMask(heap, filling_scheme_path')
            /\ err' = err
            /\ IF check_bunch_number
               THEN IF IsNone(heap'[BeamBeamMask(heap')]["i_bunch_b1"])
                    THEN /\ \E w \in WorstBunches : worst_bunch_b1' = PyInt(w)
                         /\ pc' = "prompt"
                    ELSE /\ pc' = "assemble"
                         /\ UNCHANGED worst_bunch_b1
               ELSE /\ pc' = "assemble"
                    /\ UNCHANGED worst_bunch_b1
    /\ UNCHANGED <<check_bunch_number, d_filling_scheme, bool_inp, typed,
                   d_config_collider, d_config_simulation, l_bunch_to_scan, track_array,
                   combos, idx_job, children, template0, root_children>>

\* lines 206-216: the heaps that the check of the bunch number of beam 2 may leave
Beam2(h) ==
    IF IsNone(h[BeamBeamMask(h)]["i_bunch_b2"])
    THEN {HeapSet(h, BeamBeamMask(h), "i_bunch_b2", PyInt(w2)) : w2 \in WorstBunches}
    ELSE {h}

\* lines 192-216: one round of the prompt loop; when the loop is left, the
\* check of the bunch number of beam 2 follows
Prompt ==
    /\ pc = "prompt"
    /\ \E ans \in Answers :
          LET m == BeamBeamMask(heap)
          IN
          /\ bool_inp' = ans
          /\ IF ans = "y"
             THEN /\ \E h \in Beam2(HeapSet(heap, m, "i_bunch_b1", worst_bunch_b1)) : heap' = h
                  /\ pc' = "assemble"
                  /\ UNCHANGED <<typed, err>>
             ELSE IF ans = "n"
             THEN \E t \in TypedStrings :
                  /\ typed' = t
                  /\ IF IntParses(t)
                     THEN /\ \E h \in Beam2(HeapSet(heap, m, "i_bunch_b1", PyInt(IntValue(t)))) :
                                heap' = h
                          /\ pc' = "assemble"
                          /\ err' = err
                     ELSE /\ pc' = "crashed"
                          /\ err' = "ValueError"
                          /\ heap' = heap
             ELSE /\ pc' = "prompt"
                  /\ UNCHANGED <<heap, typed, err>>
    /\ UNCHANGED <<files, check_bunch_number, filling_scheme_path, d_filling_scheme,
                   n_reformat, worst_bunch_b1, d_config_collider, d_config_simulation,
                   l_bunch_to_scan, track_array, combos, idx_job, children, template0,
                   root_children>>

\* lines 222-251: d_config_collider and d_config_simulation
Assemble ==
    /\ pc = "assemble"
    /\ LET c  == Len(heap) + 1
           sm == Len(heap) + 2
           collider == DictOf({<<"config_knobs_and_tuning", PyRef(d_config_tune_and_chroma)>>,
                               <<"skip_leveling", PyLit("False")>>,
                               <<"config_lumi_leveling", PyRef(d_config_leveling)>>,
                               <<"config_beambeam", PyRef(d_config_beambeam)>>})
           simulation == DictOf({<<"n_turns", PyInt(1000000)>>,
                                 <<"delta_max", PyLit("27.0e-5")>>,
                                 <<"beam", PyLit("lhcb1")>>})
           \* line 228 writes into d_config_tune_and_chroma, which line 225 aliased
           h1 == HeapSet(heap, d_config_tune_and_chroma, "knob_settings", PyRef(d_config_knobs))
       IN  /\ heap' = h1 \o <<collider, simulation>>
           /\ d_config_collider' = c
           /\ d_config_simulation' = sm
    /\ pc' = "axis"
    /\ UNCHANGED <<err, files, check_bunch_number, filling_scheme_path, d_filling_scheme,
                   n_reformat, worst_bunch_b1, bool_inp, typed, l_bunch_to_scan,
                   track_array, combos, idx_job, children, template0, root_children>>

\* lines 259-263: the first bunch of each family
BuildBunchAxis ==
    /\ pc = "axis"
    /\ IF "beam1_identical_bunches" \notin DOMAIN d_filling_scheme
       THEN /\ pc' = "crashed"
            /\ err' = "KeyError"
            /\ UNCHANGED l_bunch_to_scan
       ELSE LET fams == d_filling_scheme["beam1_identical_bunches"].families
            IN  IF \E i \in 1..Len(fams) : fams[i] = << >>
                THEN /\ pc' = "crashed"
                     /\ err' = "IndexError"
                     /\ UNCHANGED l_bunch_to_scan
                ELSE /\ l_bunch_to_scan' = FirstMembers(fams)
                     /\ pc' = "tree"
                     /\ err' = err
    /\ UNCHANGED <<heap, files, check_bunch_number, filling_scheme_path, d_filling_scheme,
                   n_reformat, worst_bunch_b1, bool_inp, typed, d_config_collider,
                   d_config_simulation, track_array, combos, idx_job, children,
                   template0, root_children>>

\* lines 273-292: the first generation of the tree, the split axis and the product
MakeTree ==
    /\ pc = "tree"
    /\ heap' = Append(heap, DictOf({<<"config_particles", PyRef(d_config_particles)>>,
                                    <<"config_mad", PyRef(d_config_mad)>>}))
    /\ children' = << >>
    /\ track_array' = Arange(heap[d_config_particles]["n_split"].int)
    /\ combos' = Product(track_array', l_bunch_to_scan)
    /\ idx_job' = 0
    /\ template0' = <<Deep(heap, d_config_simulation), Deep(heap, d_config_collider)>>
    /\ pc' = "loop"
    /\ UNCHANGED <<err, files, check_bunch_number, filling_scheme_path, d_filling_scheme,
                   n_reformat, worst_bunch_b1, bool_inp, typed, d_config_collider,
                   d_config_simulation, l_bunch_to_scan, root_children>>

\* the bunch number written to the field of beam 2
MutateBeam2(h, collider, simulation, track, bunch_nb) ==
    LET h1 == HeapSet(h, MaskOf(h, collider), "i_bunch_b2", PyInt(bunch_nb))
        h2 == HeapSet(h1, simulation, "particle_file", PyStr(ParticleFile(track)))
    IN  HeapSet(h2, simulation, "collider_file", PyLit("../collider/collider.json"))

\* the particle file written under a misspelt key
MutateOtherKey(h, collider, simulation, track, bunch_nb) ==
    LET h1 == HeapSet(h, MaskOf(h, collider), "i_bunch_b1", PyInt(bunch_nb))
        h2 == HeapSet(h1, simulation, "particles_file", PyStr(ParticleFile(track)))
    IN  HeapSet(h2, simulation, "collider_file", PyLit("../collider/collider.json"))

\* lines 293-301: the two templates after the values of one combination are written
\* (the loop over the beams of line 294 makes the same assignment twice)
Mutate(h, collider, simulation, track, bunch_nb) ==
    LET h1 == HeapSet(h, MaskOf(h, collider), "i_bunch_b1", PyInt(bunch_nb))
        h2 == HeapSet(h1, simulation, "particle_file", PyStr(ParticleFile(track)))
    IN  HeapSet(h2, simulation, "collider_file", PyLit("../collider/collider.json"))

\* lines 292-308: one iteration of the expansion loop
ExpandOne ==
    /\ pc = "loop"
    /\ idx_job < Len(combos)
    /\ LET track    == combos[idx_job + 1][1]
           bunch_nb == combos[idx_job + 1][2]
           h1 == Mutate(heap, d_config_collider, d_config_simulation, track, bunch_nb)
           cs == DeepCopy(h1, d_config_simulation)
           cc == DeepCopy(cs.heap, d_config_collider)
           variant == DictOf({<<"config_simulation", PyRef(cs.id)>>,
                              <<"config_collider", PyRef(cc.id)>>,
                              <<"log_file", PyLit("tree_maker.log")>>})
       IN  /\ heap' = Append(cc.heap, variant)
           /\ children' = DictSet(children, JobName(idx_job), Len(cc.heap) + 1)
    /\ idx_job' = idx_job + 1
    /\ UNCHANGED <<pc, err, files, check_bunch_number, filling_scheme_path,
                   d_filling_scheme, n_reformat, worst_bunch_b1, bool_inp, typed,
                   d_config_collider, d_config_simulation, l_bunch_to_scan, track_array,
                   combos, template0, root_children>>

\* lines 314-320: the product is exhausted; the children are put under the root
HandOff ==
    /\ pc = "loop"
    /\ idx_job = Len(combos)
    /\ root_children' = [children |-> children]
    /\ pc' = "build"
    /\ UNCHANGED <<err, heap, files, check_bunch_number, filling_scheme_path,
                   d_filling_scheme, n_reformat, worst_bunch_b1, bool_inp, typed,
                   d_config_collider, d_config_simulation, l_bunch_to_scan, track_array,
                   combos, idx_job, children, template0>>

\* lines 326-349: tree_maker builds the tree and writes the folders
BuildTree ==
    /\ pc = "build"
    /\ pc' = "done"
    /\ UNCHANGED <<err, heap, files, check_bunch_number, filling_scheme_path,
                   d_filling_scheme, n_reformat, worst_bunch_b1, bool_inp, typed,
                   d_config_collider, d_config_simulation, l_bunch_to_scan, track_array,
                   combos, idx_job, children, template0, root_children>>

Next ==
    \/ LoadFillingScheme
    \/ CheckShape
    \/ Prompt
    \/ Assemble
    \/ BuildBunchAxis
    \/ MakeTree
    \/ ExpandOne
    \/ HandOff
    \/ BuildTree

Spec == Init /\ [][Next]_vars

---------------------------------------------------------------------------
\* Reading and writing nested fields: d[p1][p2]...[pn]

RECURSIVE Resolve(_, _, _)
\* the dictionary that holds the last key of the path
Resolve(h, i, path) == IF Len(path) = 1 THEN i
                       ELSE Resolve(h, h[i][Head(path)].ref, Tail(path))

ReadPath(h, i, path) == h[Resolve(h, i, path)][path[Len(path)]]

WritePath(h, i, path, v) == HeapSet(h, Resolve(h, i, path), path[Len(path)], v)

RECURSIVE HasPath(_, _)
\* does the nested value d (as Deep gives it) have the path
HasPath(d, path) == /\ Head(path) \in DOMAIN d
                    /\ \/ Len(path) = 1
                       \/ /\ ~("int" \in DOMAIN d[Head(path)] \/ "lit" \in DOMAIN d[Head(path)]
                               \/ "str" \in DOMAIN d[Head(path)] \/ "none" \in DOMAIN d[Head(path)])
                          /\ HasPath(d[Head(path)], Tail(path))

BunchPath == <<"config_beambeam", "mask_with_filling_pattern", "i_bunch_b1">>

FilePath == <<"particle_file">>

VariantBunchPath == <<"config_collider">> \o BunchPath

VariantFilePath == <<"config_simulation">> \o FilePath

\* the job variants, by heap id
VariantIds == {children[i].val : i \in 1..Len(children)}

n_split == heap[d_config_particles]["n_split"].int

LoopOver == pc \in {"build", "done"}

---------------------------------------------------------------------------
\* Claims

\* the dictionaries reachable from the two templates
TemplateReach == Reach(heap, d_config_collider) \cup Reach(heap, d_config_simulation)

Probe == PyLit("probe")

\* writing the field pa of a leaves the field pb of b as it is
WriteIsolated(a, pa, b, pb) ==
    ReadPath(WritePath(heap, a, pa, Probe), b, pb) = ReadPath(heap, b, pb)

\* C1: once the expansion loop has finished, no job variant shares a dictionary
\* with another job variant or with the templates d_config_collider and
\* d_config_simulation: the sets of dictionaries reachable from them are disjoint,
\* and writing i_bunch_b1 or particle_file in one leaves the other's unchanged.
C1_Isolation ==
    LoopOver =>
        /\ \A a, b \in VariantIds :
              a # b => /\ Reach(heap, a) \cap Reach(heap, b) = {}
                       /\ WriteIsolated(a, VariantBunchPath, b, VariantBunchPath)
                       /\ WriteIsolated(a, VariantFilePath, b, VariantFilePath)
        /\ \A a \in VariantIds :
              /\ Reach(heap, a) \cap TemplateReach = {}
              /\ WriteIsolated(a, VariantBunchPath, d_config_collider, BunchPath)
              /\ WriteIsolated(a, VariantFilePath, d_config_simulation, FilePath)
              /\ WriteIsolated(d_config_collider, BunchPath, a, VariantBunchPath)
              /\ WriteIsolated(d_config_simulation, FilePath, a, VariantFilePath)

C1_Witness == pc = "done" /\ Len(children) >= 4 /\ Cardinality(VariantIds) >= 4

\* C2: with a non-empty split axis and a non-empty bunch axis, the number of job
\* variants at the end of the loop is n_split times the number of bunch values,
\* repeated bunch values included.
C2_Count ==
    (LoopOver /\ n_split >= 1 /\ Len(l_bunch_to_scan) >= 1) =>
        /\ Len(children) = n_split * Len(l_bunch_to_scan)
        /\ Cardinality({children[i].key : i \in 1..Len(children)}) = n_split * Len(l_bunch_to_scan)
        /\ Cardinality(VariantIds) = n_split * Len(l_bunch_to_scan)

C2_Witness ==
    /\ pc = "done"
    /\ n_split = 2
    /\ l_bunch_to_scan = <<100, 100, 300>>
    /\ Len(children) = 6

JobPrefix == <<"x", "t", "r", "a", "c", "k", "_">>

\* the characters of a job identifier after the prefix
Suffix(key) == SubSeq(key, Len(JobPrefix) + 1, Len(key))

\* C3: the job identifiers are pairwise distinct, each is "xtrack_" followed by
\* the running index padded with zeros to 4 digits, the k-th variant inserted
\* carrying suffix k, so that the suffixes are exactly 0 .. count-1; when the loop
\* has finished the count is the number of combinations.
C3_Identifiers ==
    /\ \A i \in 1..Len(children) :
          LET key == children[i].key
          IN  /\ Len(key) >= Len(JobPrefix) + 4
              /\ SubSeq(key, 1, Len(JobPrefix)) = JobPrefix
              /\ AllDigits(Suffix(key))
              /\ NatValue(Suffix(key)) = i - 1
              /\ Len(Suffix(key)) > 4 => Suffix(key)[1] # "0"
    /\ \A i, j \in 1..Len(children) : i # j => children[i].key # children[j].key
    /\ {NatValue(Suffix(children[i].key)) : i \in 1..Len(children)} = 0..(Len(children) - 1)
    /\ LoopOver => Len(children) = Len(track_array) * Len(l_bunch_to_scan)

C3_Witness ==
    /\ pc = "done"
    /\ Len(children) = 6
    /\ children[6].key = <<"x", "t", "r", "a", "c", "k", "_", "0", "0", "0", "5">>

\* the two characters of q < 100 padded to width 2
TwoDigits(q) == <<DigitChars[(q \div 10) + 1], DigitChars[(q % 10) + 1]>>

ExpectedFile(q) ==
    <<".", ".", "/", "p", "a", "r", "t", "i", "c", "l", "e", "s", "/">> \o TwoDigits(q)
    \o <<".", "p", "a", "r", "q", "u", "e", "t">>

\* the (particle_file, i_bunch_b1) of the variants, in insertion order
Carried == [i \in 1..Len(children) |->
               <<ReadPath(heap, children[i].val, VariantFilePath).str,
                 ReadPath(heap, children[i].val, VariantBunchPath).int>>]

\* C4: the split axis is the outer axis and the bunch axis varies fastest: with m
\* bunch values, the variant with index k carries the (k mod m)-th bunch value and
\* the particle file of split k div m, padded to 2 digits; split {0,1} and bunches
\* 100, 200, 300 give (0,100),(0,200),(0,300),(1,100),(1,200),(1,300) in that order.
C4_Order ==
    /\ \A i \in 1..Len(children) :
          LET k == i - 1
              m == Len(l_bunch_to_scan)
          IN  /\ Carried[i][2] = l_bunch_to_scan[(k % m) + 1]
              /\ Carried[i][1] = ExpectedFile(k \div m)
    /\ (LoopOver /\ n_split = 2 /\ l_bunch_to_scan = <<100, 200, 300>>) =>
          Carried = << <<ExpectedFile(0), 100>>, <<ExpectedFile(0), 200>>,
                       <<ExpectedFile(0), 300>>, <<ExpectedFile(1), 100>>,
                       <<ExpectedFile(1), 200>>, <<ExpectedFile(1), 300>> >>

C4_Witness ==
    /\ pc = "done"
    /\ n_split = 2
    /\ l_bunch_to_scan = <<100, 200, 300>>
    /\ Len(children) = 6
    /\ Carried[4] = <<ExpectedFile(1), 100>>

\* an axis of the product has no value
EmptyAxis == pc \in {"loop", "build", "done"} /\ (track_array = << >> \/ l_bunch_to_scan = << >>)

\* C5: when a scan axis has no candidate value, the expansion ends in an error and
\* never completes with an empty child mapping handed to the tree builder.
C5_EmptyAxisIsError == EmptyAxis => (pc \notin {"build", "done"} /\ ~IsBound(root_children))

\* the two templates as nested values
TemplateNow == <<Deep(heap, d_config_simulation), Deep(heap, d_config_collider)>>

\* C6 as stated: the templates hold after the loop what they held before it.
C6_NoSideEffect == LoopOver => TemplateNow = template0

\* C6 amended: the values of each combination are written into the templates and
\* then copied: after the loop, if a combination was enumerated, i_bunch_b1 of the
\* template is the last bunch value and d_config_simulation has gained
\* particle_file (of the last split) and collider_file, every other field being as
\* before the loop; if none was enumerated the templates are unchanged.
C6_TemplateHoldsLast ==
    LoopOver =>
        IF n_split = 0 \/ l_bunch_to_scan = << >>
        THEN TemplateNow = template0
        ELSE /\ TemplateNow[2] =
                  [template0[2] EXCEPT !["config_beambeam"]["mask_with_filling_pattern"]["i_bunch_b1"] =
                       PyInt(l_bunch_to_scan[Len(l_bunch_to_scan)])]
             /\ TemplateNow[1] =
                  SetItem(SetItem(template0[1], "particle_file", PyStr(ExpectedFile(n_split - 1))),
                          "collider_file", PyLit("../collider/collider.json"))

C6_Witness ==
    /\ pc = "done"
    /\ Len(children) >= 2
    /\ TemplateNow # template0
    /\ ReadPath(heap, d_config_collider, BunchPath) = PyInt(300)

InExpansion == pc \in {"loop", "build", "done"}

\* C7 as stated: a target path of a scan axis (i_bunch_b1 for the bunch axis,
\* particle_file for the split axis) that the base configuration lacks makes the
\* expansion fail: no variant is produced and the key is not created.
C7_MissingPathFails ==
    InExpansion =>
        /\ ~HasPath(template0[2], BunchPath) =>
              (children = << >> /\ ~HasPath(TemplateNow[2], BunchPath))
        /\ ~HasPath(template0[1], FilePath) =>
              (children = << >> /\ ~HasPath(TemplateNow[1], FilePath))

\* C7 amended: the target path of the bunch axis always exists in the base
\* configuration when the loop starts, so that no path-resolution error arises;
\* the target of the split axis, particle_file, does not exist there, and the
\* first iteration creates it silently: it is then in the template and in every
\* variant.
C7_MissingKeyCreated ==
    InExpansion =>
        /\ HasPath(template0[2], BunchPath)
        /\ ~HasPath(template0[1], FilePath)
        /\ Len(children) >= 1 =>
              /\ HasPath(TemplateNow[1], FilePath)
              /\ \A v \in VariantIds : HasPath(Deep(heap, v), VariantFilePath)

C7_Witness ==
    /\ pc = "done"
    /\ Len(children) >= 1
    /\ ~HasPath(template0[1], FilePath)
    /\ HasPath(TemplateNow[1], FilePath)

\* d_config_beambeam["mask_with_filling_pattern"]["i_bunch_b1"]
I_bunch_b1 == heap[BeamBeamMask(heap)]["i_bunch_b1"]

\* C8: on the interactive path no input crashes the script: after an answer the
\* script is either at the prompt again with i_bunch_b1 unset (the answer was
\* neither y nor n, or the text typed after n was no integer) or past the loop
\* with i_bunch_b1 set to the worst bunch (y) or to the integer typed (n).
C8_PromptNeverCrashes ==
    (check_bunch_number /\ bool_inp # "unset") =>
        /\ err # "ValueError"
        /\ pc = "prompt" =>
              /\ IsNone(I_bunch_b1)
              /\ bool_inp # "y"
              /\ bool_inp = "n" => ~IntParses(typed)
        /\ pc = "assemble" =>
              \/ bool_inp = "y" /\ I_bunch_b1 = worst_bunch_b1
              \/ bool_inp = "n" /\ IntParses(typed) /\ I_bunch_b1 = PyInt(IntValue(typed))

\* C9: a variant, once inserted, keeps its place, its identifier and its whole
\* content in every later step, and what was handed to the tree builder is the
\* child mapping, which no longer changes.
C9_Immutable ==
    [][ /\ \A i \in 1..Len(children) :
              /\ i <= Len(children')
              /\ children'[i] = children[i]
              /\ Deep(heap', children[i].val) = Deep(heap, children[i].val)
        /\ IsBound(root_children) => (root_children' = root_children /\ children' = children)
        /\ IsBound(root_children') => root_children'.children = children'
      ]_vars

C9_Witness ==
    /\ pc = "done"
    /\ Len(children) >= 3
    /\ IsBound(root_children)
    /\ ReadPath(heap, children[1].val, VariantBunchPath) # ReadPath(heap, children[2].val, VariantBunchPath)

\* d_config_beambeam["mask_with_filling_pattern"]["pattern_fname"]
Pattern_fname == heap[BeamBeamMask(heap)]["pattern_fname"]

\* C10: with both beams in the loaded scheme the reformatter is not called and
\* pattern_fname is the original path; otherwise it is called once and
\* pattern_fname is the path with ".json" replaced by "_converted.json"; in both
\* cases the bunch axis is made of the first member of each family of the file
\* that pattern_fname names.
C10_PatternShape ==
    (\/ pc \in {"prompt", "assemble", "axis", "tree", "loop", "build", "done"}
     \/ pc = "crashed" /\ err \in {"KeyError", "IndexError", "ValueError"}) =>
        LET both  == "beam1" \in DOMAIN d_filling_scheme /\ "beam2" \in DOMAIN d_filling_scheme
            named == files[Pattern_fname.str]
        IN  /\ both => (n_reformat = 0 /\ Pattern_fname = PyStr(InitialPath))
            /\ ~both => /\ n_reformat = 1
                        /\ Pattern_fname =
                              PyStr(<<InitialPath[1], InitialPath[2], "_converted.json">>)
            /\ Pattern_fname.str \in DOMAIN files
            /\ pc \in {"tree", "loop", "build", "done"} =>
                  /\ "beam1_identical_bunches" \in DOMAIN named
                  /\ l_bunch_to_scan =
                        [i \in 1..Len(named["beam1_identical_bunches"].families) |->
                            named["beam1_identical_bunches"].families[i][1]]
            /\ err = "KeyError" => "beam1_identical_bunches" \notin DOMAIN named

====
